---- MODULE Spec2Model ----
(***************************************************************************)
(* Model of the reservation logic of salagourmet                           *)
(* (src/src/context/ReservationContext.tsx, src/src/context/AuthContext.tsx)*)
(*                                                                         *)
(* Several client sessions (browser tabs) share one Firestore collection   *)
(* `reservations` (the variable db).  Each session holds its own React     *)
(* state: `user` (AuthContext) and `reservations` (the cache filled by     *)
(* loadReservations).  createReservation and cancelReservation are async:  *)
(* their synchronous prefix (the checks made on the cache) is one step,    *)
(* and every await (addDoc, deleteDoc, getDocs) is a further step at which *)
(* the other sessions may run.                                             *)
(*                                                                         *)
(* Dates are the strings 'yyyy-MM-dd'; the model writes a date as the      *)
(* number of days after Monday 2024-01-01, so 0 is '2024-01-01' (Monday),  *)
(* 6 is '2024-01-07' (Sunday) and 7 is '2024-01-08' (the Monday after).    *)
(* The createdAt timestamp of a record is read by no code and is left out. *)
(***************************************************************************)
EXTENDS Integers, FiniteSets, Sequences, TLC

(* ------------------------------ bounds -------------------------------- *)

\* Number of createReservation and cancelReservation calls the sessions
\* make in one behaviour.
MaxCalls == 2

\* The client sessions.  "s1" is a session that has been open for a while:
\* "u1" is signed in and its first load has ended.  "s2" has just been
\* opened: its first load is under way, and any account signs in and out.
Sessions == {"s1", "s2"}
Users == {"u1", "u2"}
NoUser == "null"
AuthStates(s) == IF s = "s1" THEN {"u1"} ELSE Users \cup {NoUser}

\* The requests the callers make: unit P1/2/A on Monday 2024-01-01 and on
\* Wednesday 2024-01-03, and unit P2/2/A on that Wednesday.
Request(portal, floor, door, date) ==
  [portal |-> portal, floor |-> floor, door |-> door, date |-> date,
   status |-> "confirmed"]
Inputs ==
  { Request("P1", "2", "A", 0), Request("P1", "2", "A", 2),
    Request("P2", "2", "A", 2) }

\* The collection when the sessions open: empty, or holding what earlier
\* sessions of "u1" booked one after the other for unit P1/2/A (Monday
\* 2024-01-01, then Sunday 2024-01-07 with the door written "a").
Doc(id, data, uid) ==
  [id |-> id, portal |-> data.portal, floor |-> data.floor,
   door |-> data.door, date |-> data.date, status |-> data.status,
   userId |-> uid]
Booked1 == Doc(1, Request("P1", "2", "A", 0), "u1")
Booked2 == Doc(2, Request("P1", "2", "a", 6), "u1")
InitialStores == {{}, {Booked1, Booked2}}
\* The ids the callers ask to cancel: those of the documents above and of the
\* documents added first.
Ids == 1..(MaxCalls + 1)

(* --------------------------- program constants ------------------------ *)

MsPerDay == 86400000
weekStartsOn == 1
WeeklyLimit == 2

\* Messages of the errors thrown and of the toasts shown.
MsgNoAuthCreate == "Debes iniciar sesion para hacer una reserva"
ErrNoAuth == "Usuario no autenticado"
ErrDateTaken == "Esta fecha ya esta reservada"
ErrQuota == "Esta vivienda ya ha alcanzado el limite de 2 reservas esta semana"
ErrStore == "FirebaseError"
MsgLoadFailed == "Error al cargar las reservas"
MsgNoAuthCancel == "Debes iniciar sesion para cancelar una reserva"
MsgNotFound == "Reserva no encontrada"
MsgForbidden == "Solo puedes cancelar tus propias reservas"
MsgCancelled == "Reserva cancelada con exito"
MsgCancelFailed == "Error al cancelar la reserva"

(* ------------------------------- state -------------------------------- *)

VARIABLES
  db,            \* the documents of the Firestore collection 'reservations'
  nextId,        \* the id the store gives to the next added document
  user,          \* user[s]: the signed-in account of session s, or NoUser
  reservations,  \* reservations[s]: the React state `reservations` of s
  mount,         \* mount[s]: position of the loadReservations started on mount
  pc,            \* pc[s]: position of the call in flight in session s
  op,            \* op[s]: "create" or "cancel", the call in flight or settled
  arg,           \* arg[s]: the document to add, or the id to delete
  view,          \* view[s]: the `reservations` array in the call's closure
  snapshot,      \* snapshot[s]: the documents getDocs returned to the call
  result,        \* result[s]: how the call's promise settled
  toasts,        \* toasts[s]: the toasts the call has shown
  writes,        \* writes[s]: the addDoc/deleteDoc requests the call has sent
  calls          \* the calls made so far, by all sessions

vars == <<db, nextId, user, reservations, mount, pc, op, arg, view, snapshot,
          result, toasts, writes, calls>>

NoArg == [none |-> TRUE]
Pending == [state |-> "pending"]
Resolved == [state |-> "resolved"]
Rejected(msg) == [state |-> "rejected", message |-> msg]

(* ------------------------- pure helper functions ---------------------- *)

\* String.prototype.toUpperCase on the door labels in use.
toUpperCase(str) ==
  CASE str = "a" -> "A"
    [] str = "b" -> "B"
    [] OTHER -> str

\* parseISO of a date-only string: local midnight of that day, in ms after
\* the midnight that starts Monday 2024-01-01.
parseISO(date) == date * MsPerDay

\* Date.prototype.getDay: 0 is Sunday; day 0 of the model is a Monday.
getDay(t) == ((t \div MsPerDay) + 1) % 7

\* Mutant of startOfWeek: the option {weekStartsOn: 1} is left out, so the
\* week starts on Sunday.
startOfWeekSunday(t) ==
  LET day == getDay(t)
  IN ((t \div MsPerDay) - day) * MsPerDay

\* date-fns startOfWeek(t, {weekStartsOn}): go back to the first day of the
\* week and set the time to 00:00:00.000.
startOfWeek(t) ==
  LET day == getDay(t)
      diff == (IF day < weekStartsOn THEN 7 ELSE 0) + day - weekStartsOn
  IN ((t \div MsPerDay) - diff) * MsPerDay

\* date-fns endOfWeek(t, {weekStartsOn}): go forward to the last day of the
\* week and set the time to 23:59:59.999.
endOfWeek(t) ==
  LET day == getDay(t)
      diff == (IF day < weekStartsOn THEN -7 ELSE 0) + 6 - (day - weekStartsOn)
  IN ((t \div MsPerDay) + diff) * MsPerDay + (MsPerDay - 1)

\* The filter predicate of getWeeklyApartmentReservationsCount.
InWeekOfUnit(res, portal, floor, door, date) ==
  LET reservationDate == parseISO(date)
      weekStart == startOfWeek(reservationDate)
      weekEnd == endOfWeek(reservationDate)
      resDate == parseISO(res.date)
  IN /\ resDate >= weekStart
     /\ resDate <= weekEnd
     /\ res.portal = portal
     /\ res.floor = floor
     /\ toUpperCase(res.door) = toUpperCase(door)

\* getWeeklyApartmentReservationsCount over `list`, the `reservations` of
\* the closure: the length of the filtered array.
getWeeklyApartmentReservationsCount(list, portal, floor, door, date) ==
  Cardinality({res \in list : InWeekOfUnit(res, portal, floor, door, date)})

(* ------------------------------ initial state ------------------------- *)

Init ==
  /\ db \in InitialStores
  /\ nextId = Cardinality(db) + 1
  /\ user = [s \in Sessions |-> IF s = "s1" THEN "u1" ELSE NoUser]
  /\ reservations = [s \in Sessions |-> IF s = "s1" THEN db ELSE {}]
  /\ mount = [s \in Sessions |->
                [pc |-> IF s = "s1" THEN "done" ELSE "getDocs", docs |-> {}]]
  /\ pc = [s \in Sessions |-> "idle"]
  /\ op = [s \in Sessions |-> "none"]
  /\ arg = [s \in Sessions |-> NoArg]
  /\ view = [s \in Sessions |-> {}]
  /\ snapshot = [s \in Sessions |-> {}]
  /\ result = [s \in Sessions |-> Resolved]
  /\ toasts = [s \in Sessions |-> {}]
  /\ writes = [s \in Sessions |-> 0]
  /\ calls = 0

(* --------------------------- AuthContext ------------------------------ *)

\* The onAuthStateChanged callback: setUser(user).
AuthStateChanged(s, u) ==
  /\ u # user[s]
  /\ user' = [user EXCEPT ![s] = u]
  /\ UNCHANGED <<db, nextId, reservations, mount, pc, op, arg, view, snapshot,
                 result, toasts, writes, calls>>

(* ------------------- loadReservations started on mount ---------------- *)

\* useEffect(() => { loadReservations() }, []): getDocs answers.
MountGetDocs(s) ==
  /\ mount[s].pc = "getDocs"
  /\ mount' = [mount EXCEPT ![s] = [pc |-> "setReservations", docs |-> db]]
  /\ UNCHANGED <<db, nextId, user, reservations, pc, op, arg, view, snapshot,
                 result, toasts, writes, calls>>

\* getDocs throws: the catch of loadReservations shows a toast, the cache
\* keeps its value.
MountGetDocsFails(s) ==
  /\ mount[s].pc = "getDocs"
  /\ mount' = [mount EXCEPT ![s] = [pc |-> "done", docs |-> {}]]
  /\ UNCHANGED <<db, nextId, user, reservations, pc, op, arg, view, snapshot,
                 result, toasts, writes, calls>>

\* The continuation after the await: setReservations(loadedReservations).
MountSetReservations(s) ==
  /\ mount[s].pc = "setReservations"
  /\ reservations' = [reservations EXCEPT ![s] = mount[s].docs]
  /\ mount' = [mount EXCEPT ![s] = [pc |-> "done", docs |-> {}]]
  /\ UNCHANGED <<db, nextId, user, pc, op, arg, view, snapshot, result, toasts,
                 writes, calls>>

(* --------------------------- createReservation ------------------------ *)

\* A session takes a new call when none is in flight.
CanCall(s) == pc[s] \in {"idle", "settled"} /\ calls < MaxCalls

\* Mutant of CreateCheck: the user is looked at after the two checks on the
\* cache.
CreateCheckAuthLast(s, data) ==
  IF \E r \in reservations[s] : r.date = data.date THEN "date"
  ELSE IF getWeeklyApartmentReservationsCount(
            reservations[s], data.portal, data.floor, data.door, data.date)
          >= WeeklyLimit THEN "quota"
  ELSE IF user[s] = NoUser THEN "unauthenticated"
  ELSE "commit"

\* Mutant of CreateCheck: the weekly count is looked at before the date.
CreateCheckQuotaFirst(s, data) ==
  IF user[s] = NoUser THEN "unauthenticated"
  ELSE IF getWeeklyApartmentReservationsCount(
            reservations[s], data.portal, data.floor, data.door, data.date)
          >= WeeklyLimit THEN "quota"
  ELSE IF \E r \in reservations[s] : r.date = data.date THEN "date"
  ELSE "commit"

\* The synchronous prefix of createReservation: which branch it takes.
CreateCheck(s, data) ==
  IF user[s] = NoUser THEN "unauthenticated"
  ELSE IF \E r \in reservations[s] : r.date = data.date THEN "date"
  ELSE IF getWeeklyApartmentReservationsCount(
            reservations[s], data.portal, data.floor, data.door, data.date)
          >= WeeklyLimit THEN "quota"
  ELSE "commit"

\* reservationData = {...data, userId: user.uid, createdAt}.
ReservationData(s, data) ==
  [portal |-> data.portal, floor |-> data.floor, door |-> data.door,
   date |-> data.date, status |-> "confirmed", userId |-> user[s]]

\* Mutant of RejectNow: the throw sits in a try whose finally reloads the
\* cache, so the rejected call goes on to getDocs.
RejectNowRefresh(s, kind, a, msg, shown) ==
  /\ pc' = [pc EXCEPT ![s] = "getDocs"]
  /\ op' = [op EXCEPT ![s] = kind]
  /\ arg' = [arg EXCEPT ![s] = a]
  /\ view' = [view EXCEPT ![s] = {}]
  /\ result' = [result EXCEPT ![s] = Rejected(msg)]
  /\ toasts' = [toasts EXCEPT ![s] = shown]
  /\ writes' = [writes EXCEPT ![s] = 0]
  /\ snapshot' = [snapshot EXCEPT ![s] = {}]
  /\ calls' = calls + 1
  /\ UNCHANGED <<db, nextId, user, reservations, mount>>

\* The call settles at once, rejected with the error `msg`; `shown` are the
\* toasts of the call.
RejectNow(s, kind, a, msg, shown) ==
  /\ pc' = [pc EXCEPT ![s] = "settled"]
  /\ op' = [op EXCEPT ![s] = kind]
  /\ arg' = [arg EXCEPT ![s] = a]
  /\ view' = [view EXCEPT ![s] = {}]
  /\ result' = [result EXCEPT ![s] = Rejected(msg)]
  /\ toasts' = [toasts EXCEPT ![s] = shown]
  /\ writes' = [writes EXCEPT ![s] = 0]
  /\ snapshot' = [snapshot EXCEPT ![s] = {}]
  /\ calls' = calls + 1
  /\ UNCHANGED <<db, nextId, user, reservations, mount>>

\* createReservation(data) up to its first await.
createReservation(s, data) ==
  /\ CanCall(s)
  /\ LET check == CreateCheck(s, data)
     IN CASE check = "unauthenticated" ->
               RejectNow(s, "create", data, ErrNoAuth, {MsgNoAuthCreate})
          [] check = "date" ->
               RejectNow(s, "create", data, ErrDateTaken, {ErrDateTaken})
          [] check = "quota" ->
               RejectNow(s, "create", data, ErrQuota, {ErrQuota})
          [] OTHER ->
               /\ pc' = [pc EXCEPT ![s] = "addDoc"]
               /\ op' = [op EXCEPT ![s] = "create"]
               /\ arg' = [arg EXCEPT ![s] = ReservationData(s, data)]
               /\ view' = [view EXCEPT ![s] = reservations[s]]
               /\ result' = [result EXCEPT ![s] = Pending]
               /\ toasts' = [toasts EXCEPT ![s] = {}]
               /\ writes' = [writes EXCEPT ![s] = 1]
               /\ snapshot' = [snapshot EXCEPT ![s] = {}]
               /\ calls' = calls + 1
               /\ UNCHANGED <<db, nextId, user, reservations, mount>>

\* Mutant of AddDoc: the userId is read from the session when the write is
\* sent, not taken from the data built before the await.
AddDocCurrentUser(s) ==
  /\ pc[s] = "addDoc"
  /\ db' = db \cup {Doc(nextId, arg[s], user[s])}
  /\ nextId' = nextId + 1
  /\ pc' = [pc EXCEPT ![s] = "getDocs"]
  /\ UNCHANGED <<user, reservations, mount, op, arg, view, snapshot, result,
                 toasts, writes, calls>>

\* Mutant of AddDoc: the collection is listened to (onSnapshot), so every
\* session's cache follows the write at once.
AddDocBroadcast(s) ==
  /\ pc[s] = "addDoc"
  /\ db' = db \cup {Doc(nextId, arg[s], arg[s].userId)}
  /\ nextId' = nextId + 1
  /\ pc' = [pc EXCEPT ![s] = "getDocs"]
  /\ reservations' = [x \in Sessions |-> db']
  /\ UNCHANGED <<user, mount, op, arg, view, snapshot, result, toasts, writes,
                 calls>>

\* await addDoc(reservationsRef, reservationData) succeeds: the store adds
\* the document under a fresh id; the call goes on to loadReservations.
AddDoc(s) ==
  /\ pc[s] = "addDoc"
  /\ db' = db \cup {Doc(nextId, arg[s], arg[s].userId)}
  /\ nextId' = nextId + 1
  /\ pc' = [pc EXCEPT ![s] = "getDocs"]
  /\ UNCHANGED <<user, reservations, mount, op, arg, view, snapshot, result,
                 toasts, writes, calls>>

\* Mutant of AddDocFails: the catch does not rethrow (as the catch of
\* cancelReservation), so the call resolves.
AddDocFailsSwallowed(s) ==
  /\ pc[s] = "addDoc"
  /\ pc' = [pc EXCEPT ![s] = "settled"]
  /\ result' = [result EXCEPT ![s] = Resolved]
  /\ toasts' = [toasts EXCEPT ![s] = @ \cup {ErrStore}]
  /\ view' = [view EXCEPT ![s] = {}]
  /\ UNCHANGED <<arg, db, nextId, user, reservations, mount, op, snapshot,
                 writes, calls>>

\* await addDoc throws: catch, toast.error(error.message), throw error.
AddDocFails(s) ==
  /\ pc[s] = "addDoc"
  /\ pc' = [pc EXCEPT ![s] = "settled"]
  /\ result' = [result EXCEPT ![s] = Rejected(ErrStore)]
  /\ toasts' = [toasts EXCEPT ![s] = @ \cup {ErrStore}]
  /\ view' = [view EXCEPT ![s] = {}]
  /\ UNCHANGED <<arg, db, nextId, user, reservations, mount, op, snapshot,
                 writes, calls>>

(* ------------- loadReservations awaited by create and cancel ---------- *)

\* await getDocs(q) answers with the documents of the collection.
GetDocs(s) ==
  /\ pc[s] = "getDocs"
  /\ snapshot' = [snapshot EXCEPT ![s] = db]
  /\ pc' = [pc EXCEPT ![s] = "setReservations"]
  /\ UNCHANGED <<db, nextId, user, reservations, mount, op, arg, view, result,
                 toasts, writes, calls>>

\* await getDocs(q) throws: loadReservations catches, shows a toast and
\* returns; its caller goes on as after a successful load and resolves.
GetDocsFails(s) ==
  /\ pc[s] = "getDocs"
  /\ toasts' = [toasts EXCEPT ![s] = @ \cup {MsgLoadFailed}]
  /\ result' = [result EXCEPT ![s] = Resolved]
  /\ pc' = [pc EXCEPT ![s] = "settled"]
  /\ view' = [view EXCEPT ![s] = {}]
  /\ UNCHANGED <<arg, db, nextId, user, reservations, mount, op, snapshot,
                 writes, calls>>

\* Mutant of SetReservations: the loaded documents are merged into the
\* cache (setReservations(prev => [...prev, ...loaded])).
SetReservationsMerge(s) ==
  /\ pc[s] = "setReservations"
  /\ reservations' = [reservations EXCEPT ![s] = @ \cup snapshot[s]]
  /\ snapshot' = [snapshot EXCEPT ![s] = {}]
  /\ result' = [result EXCEPT ![s] = Resolved]
  /\ pc' = [pc EXCEPT ![s] = "settled"]
  /\ view' = [view EXCEPT ![s] = {}]
  /\ UNCHANGED <<arg, db, nextId, user, mount, op, toasts, writes, calls>>

\* setReservations(loadedReservations); loadReservations returns and the
\* call resolves.
SetReservations(s) ==
  /\ pc[s] = "setReservations"
  /\ reservations' = [reservations EXCEPT ![s] = snapshot[s]]
  /\ snapshot' = [snapshot EXCEPT ![s] = {}]
  /\ result' = [result EXCEPT ![s] = Resolved]
  /\ pc' = [pc EXCEPT ![s] = "settled"]
  /\ view' = [view EXCEPT ![s] = {}]
  /\ UNCHANGED <<arg, db, nextId, user, mount, op, toasts, writes, calls>>

(* --------------------------- cancelReservation ------------------------ *)

\* Mutant of CancelCheck: the comparison of userId with user.uid is left
\* out.
CancelCheckAnyOwner(s, id) ==
  IF user[s] = NoUser THEN "unauthenticated"
  ELSE IF ~ \E r \in reservations[s] : r.id = id THEN "notfound"
  ELSE "delete"

\* Mutant of CancelCheck: the reservation is looked up in the collection,
\* not in the cache.
CancelCheckOnStore(s, id) ==
  IF user[s] = NoUser THEN "unauthenticated"
  ELSE IF ~ \E r \in reservations[s] \cap db : r.id = id THEN "notfound"
  ELSE IF (CHOOSE r \in reservations[s] \cap db : r.id = id).userId # user[s]
       THEN "forbidden"
  ELSE "delete"

\* The synchronous prefix of cancelReservation: which branch it takes.
CancelCheck(s, id) ==
  IF user[s] = NoUser THEN "unauthenticated"
  ELSE IF ~ \E r \in reservations[s] : r.id = id THEN "notfound"
  ELSE IF (CHOOSE r \in reservations[s] : r.id = id).userId # user[s]
       THEN "forbidden"
  ELSE "delete"

\* The call settles at once by `return`: the promise resolves.
ReturnNow(s, kind, a, shown) ==
  /\ pc' = [pc EXCEPT ![s] = "settled"]
  /\ op' = [op EXCEPT ![s] = kind]
  /\ arg' = [arg EXCEPT ![s] = a]
  /\ view' = [view EXCEPT ![s] = {}]
  /\ result' = [result EXCEPT ![s] = Resolved]
  /\ toasts' = [toasts EXCEPT ![s] = shown]
  /\ writes' = [writes EXCEPT ![s] = 0]
  /\ snapshot' = [snapshot EXCEPT ![s] = {}]
  /\ calls' = calls + 1
  /\ UNCHANGED <<db, nextId, user, reservations, mount>>

\* cancelReservation(id) up to its first await.
cancelReservation(s, id) ==
  /\ CanCall(s)
  /\ LET check == CancelCheck(s, id)
         a == [id |-> id]
     IN CASE check = "unauthenticated" ->
               ReturnNow(s, "cancel", a, {MsgNoAuthCancel})
          [] check = "notfound" ->
               ReturnNow(s, "cancel", a, {MsgNotFound})
          [] check = "forbidden" ->
               ReturnNow(s, "cancel", a, {MsgForbidden})
          [] OTHER ->
               /\ pc' = [pc EXCEPT ![s] = "deleteDoc"]
               /\ op' = [op EXCEPT ![s] = "cancel"]
               /\ arg' = [arg EXCEPT ![s] =
                           [id |-> id,
                            reservation |->
                              CHOOSE r \in reservations[s] : r.id = id]]
               /\ view' = [view EXCEPT ![s] = reservations[s]]
               /\ result' = [result EXCEPT ![s] = Pending]
               /\ toasts' = [toasts EXCEPT ![s] = {}]
               /\ writes' = [writes EXCEPT ![s] = 1]
               /\ snapshot' = [snapshot EXCEPT ![s] = {}]
               /\ calls' = calls + 1
               /\ UNCHANGED <<db, nextId, user, reservations, mount>>

\* Mutant of DeleteFrom: the reference names another collection, so the
\* delete succeeds and removes nothing from 'reservations'.
DeleteFromOtherCollection(docs, id) == docs

\* The documents left by deleteDoc(doc(db, 'reservations', id)).
DeleteFrom(docs, id) == {r \in docs : r.id # id}

\* await deleteDoc(...) succeeds (also when no such document is left):
\* toast.success, then loadReservations.
DeleteDoc(s) ==
  /\ pc[s] = "deleteDoc"
  /\ db' = DeleteFrom(db, arg[s].id)
  /\ toasts' = [toasts EXCEPT ![s] = @ \cup {MsgCancelled}]
  /\ pc' = [pc EXCEPT ![s] = "getDocs"]
  /\ UNCHANGED <<nextId, user, reservations, mount, op, arg, view, snapshot,
                 result, writes, calls>>

\* await deleteDoc(...) throws: catch, toast.error; the call resolves.
DeleteDocFails(s) ==
  /\ pc[s] = "deleteDoc"
  /\ toasts' = [toasts EXCEPT ![s] = @ \cup {MsgCancelFailed}]
  /\ result' = [result EXCEPT ![s] = Resolved]
  /\ pc' = [pc EXCEPT ![s] = "settled"]
  /\ view' = [view EXCEPT ![s] = {}]
  /\ UNCHANGED <<arg, db, nextId, user, reservations, mount, op, snapshot,
                 writes, calls>>

(* ------------------------------- callers ------------------------------ *)

\* The caller's continuation has consumed the settled promise.
Return(s) ==
  /\ pc[s] = "settled"
  /\ pc' = [pc EXCEPT ![s] = "idle"]
  /\ op' = [op EXCEPT ![s] = "none"]
  /\ result' = [result EXCEPT ![s] = Resolved]
  /\ toasts' = [toasts EXCEPT ![s] = {}]
  /\ writes' = [writes EXCEPT ![s] = 0]
  /\ arg' = [arg EXCEPT ![s] = NoArg]
  /\ UNCHANGED <<db, nextId, user, reservations, mount, view, snapshot, calls>>

(* ---------------------------- specification --------------------------- *)

Next ==
  \E s \in Sessions :
    \/ \E u \in AuthStates(s) : AuthStateChanged(s, u)
    \/ MountGetDocs(s)
    \/ MountGetDocsFails(s)
    \/ MountSetReservations(s)
    \/ \E data \in Inputs : createReservation(s, data)
    \/ AddDoc(s)
    \/ AddDocFails(s)
    \/ GetDocs(s)
    \/ GetDocsFails(s)
    \/ SetReservations(s)
    \/ \E id \in Ids : cancelReservation(s, id)
    \/ DeleteDoc(s)
    \/ DeleteDocFails(s)
    \/ Return(s)

Spec == Init /\ [][Next]_vars

(* ------- getWeeklyApartmentReservationsCount called on any cache ------- *)

\* Documents for the caches the weekly count is exercised on: unit P1/2/A on
\* Sunday 2023-12-31, Monday 2024-01-01, Sunday 2024-01-07 (door written
\* "a") and Monday 2024-01-08, and three other units within that week.
CountDocs ==
  { Doc(1, Request("P1", "2", "A", 0), "u1"),
    Doc(2, Request("P1", "2", "a", 6), "u1"),
    Doc(3, Request("P1", "2", "A", 7), "u2"),
    Doc(4, Request("P2", "2", "A", 2), "u2"),
    Doc(5, Request("P1", "3", "A", 3), "u2"),
    Doc(6, Request("P1", "2", "B", 4), "u2"),
    Doc(7, Request("P1", "2", "A", -1), "u1") }
CountQueries ==
  [portal : {"P1", "P2"}, floor : {"2", "3"}, door : {"A", "a", "B", "b"},
   date : {-1, 0, 3, 6, 7}]
Returned(n) == [state |-> "returned", value |-> n]

\* Every session has loaded the collection, which holds any of CountDocs.
InitCount ==
  /\ db \in SUBSET CountDocs
  /\ nextId = 8
  /\ user = [s \in Sessions |-> "u1"]
  /\ reservations = [s \in Sessions |-> db]
  /\ mount = [s \in Sessions |-> [pc |-> "done", docs |-> {}]]
  /\ pc = [s \in Sessions |-> "idle"]
  /\ op = [s \in Sessions |-> "none"]
  /\ arg = [s \in Sessions |-> NoArg]
  /\ view = [s \in Sessions |-> {}]
  /\ snapshot = [s \in Sessions |-> {}]
  /\ result = [s \in Sessions |-> Resolved]
  /\ toasts = [s \in Sessions |-> {}]
  /\ writes = [s \in Sessions |-> 0]
  /\ calls = 0

\* A component of session s calls the context's
\* getWeeklyApartmentReservationsCount(portal, floor, door, date).
WeeklyCountCall(s, q) ==
  /\ pc[s] = "idle"
  /\ op' = [op EXCEPT ![s] = "count"]
  /\ arg' = [arg EXCEPT ![s] = q]
  /\ result' = [result EXCEPT ![s] =
                  Returned(getWeeklyApartmentReservationsCount(
                    reservations[s], q.portal, q.floor, q.door, q.date))]
  /\ UNCHANGED <<db, nextId, user, reservations, mount, pc, view, snapshot,
                 toasts, writes, calls>>

NextCount == \E q \in CountQueries : WeeklyCountCall("s1", q)

SpecCount == InitCount /\ [][NextCount]_vars

(* ----------------- one session, every store call succeeds ------------- *)

\* The single writer: the session that has just been opened.  The other
\* session makes no call and no store call fails.  The calls of a session
\* never overlap: CanCall lets a call start only when the one before has
\* settled, its refresh included.
Writer == "s2"

NextSingle ==
  \/ \E u \in AuthStates(Writer) : AuthStateChanged(Writer, u)
  \/ MountGetDocs(Writer)
  \/ MountSetReservations(Writer)
  \/ \E data \in Inputs : createReservation(Writer, data)
  \/ AddDoc(Writer)
  \/ GetDocs(Writer)
  \/ SetReservations(Writer)
  \/ \E id \in Ids : cancelReservation(Writer, id)
  \/ DeleteDoc(Writer)
  \/ Return(Writer)

SpecSingle == Init /\ [][NextSingle]_vars

(* ------------------- a cancel that is on its way --------------------- *)

\* The behaviours that follow a cancel by its owner: the store holds one
\* reservation, of unit P1/2/A for Wednesday 2024-01-03; session s1 (u1,
\* cache loaded) has called cancelReservation on it, the checks have passed
\* and deleteDoc has not answered yet.  `calls` counts the calls made from
\* here on.  No store call fails from here on.
Freed == Doc(1, Request("P1", "2", "A", 2), "u1")
InitRebook ==
  /\ db = {Freed}
  /\ nextId = 2
  /\ user = [s \in Sessions |-> IF s = "s1" THEN "u1" ELSE NoUser]
  /\ reservations = [s \in Sessions |-> IF s = "s1" THEN {Freed} ELSE {}]
  /\ mount = [s \in Sessions |->
                [pc |-> IF s = "s1" THEN "done" ELSE "getDocs", docs |-> {}]]
  /\ pc = [s \in Sessions |-> IF s = "s1" THEN "deleteDoc" ELSE "idle"]
  /\ op = [s \in Sessions |-> IF s = "s1" THEN "cancel" ELSE "none"]
  /\ arg = [s \in Sessions |->
              IF s = "s1" THEN [id |-> Freed.id, reservation |-> Freed]
              ELSE NoArg]
  /\ view = [s \in Sessions |-> IF s = "s1" THEN {Freed} ELSE {}]
  /\ snapshot = [s \in Sessions |-> {}]
  /\ result = [s \in Sessions |-> IF s = "s1" THEN Pending ELSE Resolved]
  /\ toasts = [s \in Sessions |-> {}]
  /\ writes = [s \in Sessions |-> IF s = "s1" THEN 1 ELSE 0]
  /\ calls = 0

\* The steps of both sessions when no store call fails.
NextRebook ==
  \E s \in Sessions :
    \/ \E u \in AuthStates(s) : AuthStateChanged(s, u)
    \/ MountGetDocs(s)
    \/ MountSetReservations(s)
    \/ \E data \in Inputs : createReservation(s, data)
    \/ AddDoc(s)
    \/ GetDocs(s)
    \/ SetReservations(s)
    \/ \E id \in Ids : cancelReservation(s, id)
    \/ DeleteDoc(s)
    \/ Return(s)

SpecRebook == InitRebook /\ [][NextRebook]_vars

(* ------------------------------- claims ------------------------------- *)

\* The calendar reading of the data model: the Monday-to-Sunday week of a
\* date (day 0 is a Monday), and the unit of a reservation.
CalendarWeek(date) == date \div 7
SameIgnoringCase(a, b) == a = b \/ {a, b} \in {{"A", "a"}, {"B", "b"}}
SameUnit(r, q) ==
  /\ r.portal = q.portal
  /\ r.floor = q.floor
  /\ SameIgnoringCase(r.door, q.door)
Settled(s, kind) == pc[s] = "settled" /\ op[s] = kind

\* C1 (as claimed): no two reservations of the store have the same date.
C1_UniqueDates ==
  \A r \in db : \A q \in db : r.date = q.date => r = q

\* C2 (as claimed): no unit holds more than 2 reservations of the store in
\* one Monday-to-Sunday week.
C2_WeeklyQuota ==
  \A r \in db :
    Cardinality({q \in db : SameUnit(q, r)
                            /\ CalendarWeek(q.date) = CalendarWeek(r.date)})
      <= 2

\* C3 (as claimed): a cancel by a signed-in user goes through if and only if
\* the store holds a reservation with that id owned by the user; it ends
\* NotFound when the store holds no such reservation and Forbidden when it
\* holds one of another user, the store unchanged.
C3_CancelDecidedOnStore ==
  [][\A s \in Sessions : \A id \in Ids :
       (cancelReservation(s, id) /\ user[s] # NoUser) =>
          LET stored == {r \in db : r.id = id}
              owned == {r \in stored : r.userId = user[s]}
          IN /\ pc'[s] = "deleteDoc" <=> owned # {}
             /\ stored = {} =>
                  pc'[s] = "settled" /\ toasts'[s] = {MsgNotFound} /\ db' = db
             /\ (stored # {} /\ owned = {}) =>
                  pc'[s] = "settled" /\ toasts'[s] = {MsgForbidden} /\ db' = db
    ]_vars

\* C3 (amended): a cancel by a signed-in user reaches the store delete if
\* and only if the session's cache holds a reservation with that id owned by
\* the user; it ends NotFound when the cache holds no such reservation and
\* Forbidden when the cache holds one of another user, and in both cases no
\* delete is sent and the store is unchanged.  The delete, unless the store
\* fails, removes that record and no other.
C3_CancelDecidedOnCache ==
  [][\A s \in Sessions :
       /\ \A id \in Ids :
            (cancelReservation(s, id) /\ user[s] # NoUser) =>
               LET cached == {r \in reservations[s] : r.id = id}
                   owned == {r \in cached : r.userId = user[s]}
               IN /\ db' = db
                  /\ pc'[s] = "deleteDoc" <=> owned # {}
                  /\ cached = {} =>
                       /\ pc'[s] = "settled" /\ toasts'[s] = {MsgNotFound}
                       /\ writes'[s] = 0
                  /\ (cached # {} /\ owned = {}) =>
                       /\ pc'[s] = "settled" /\ toasts'[s] = {MsgForbidden}
                       /\ writes'[s] = 0
       /\ (pc[s] = "deleteDoc" /\ pc'[s] = "getDocs") =>
            db' = {r \in db : r.id # arg[s].id}
       /\ (pc[s] = "deleteDoc" /\ pc'[s] = "settled") => db' = db
    ]_vars

\* C3 witness: a signed-in user was refused the cancel of another user's
\* reservation, which is still in the store.
C3_Witness ==
  \E s \in Sessions :
    /\ Settled(s, "cancel") /\ toasts[s] = {MsgForbidden}
    /\ \E r \in db : r.id = arg[s].id /\ r.userId # user[s]
    /\ user[s] # NoUser

\* C4 (as claimed): when a create has just been accepted for a date and the
\* record is still in the store, the session's retry for that date is
\* rejected with DateAlreadyReserved and sends no write.
C4_RetryRejected ==
  [][\A s \in Sessions : \A data \in Inputs :
       ( /\ Settled(s, "create") /\ result[s] = Resolved
         /\ arg[s].date = data.date
         /\ \E r \in db : r.date = data.date /\ r.userId = arg[s].userId
         /\ user[s] # NoUser
         /\ createReservation(s, data) )
       => /\ result'[s] = Rejected(ErrDateTaken)
          /\ pc'[s] = "settled"
    ]_vars

\* C5 (as claimed): a getDocs failure in the refresh of a create or cancel
\* leaves the cache as it was and the call does not resolve as a success.
C5_RefreshFailurePropagated ==
  [][\A s \in Sessions :
       (pc[s] = "getDocs" /\ pc'[s] = "settled") =>
          /\ reservations'[s] = reservations[s]
          /\ result'[s] # Resolved
    ]_vars

\* C6 (as claimed): a cancel that was rejected (no user, not found, not the
\* owner, store failure) does not settle the way a successful cancel does.
C6_CancelRejectionsRaised ==
  \A s \in Sessions :
    ( /\ Settled(s, "cancel")
      /\ toasts[s] \cap {MsgNoAuthCancel, MsgNotFound, MsgForbidden,
                         MsgCancelFailed} # {} )
    => result[s] # Resolved

\* C7: a create without a signed-in user is rejected at once with
\* Unauthenticated: no write is sent, and the store, the ids and every cache
\* are as before, whatever the unit and the date.
C7_UnauthenticatedCreate ==
  [][\A s \in Sessions : \A data \in Inputs :
       (createReservation(s, data) /\ user[s] = NoUser) =>
          /\ pc'[s] = "settled"
          /\ result'[s] = Rejected(ErrNoAuth)
          /\ writes'[s] = 0
          /\ db' = db /\ nextId' = nextId
          /\ reservations' = reservations
    ]_vars

\* C7 witness: an unauthenticated create was rejected for a date the
\* session's cache shows as taken.
C7_Witness ==
  \E s \in Sessions :
    /\ Settled(s, "create") /\ result[s] = Rejected(ErrNoAuth)
    /\ user[s] = NoUser
    /\ \E r \in reservations[s] : r.date = arg[s].date

\* C8: when addDoc fails, the create is rejected with the store's error, it
\* has sent one write and sends no other, no record is added and the cache
\* is unchanged.
C8_StoreWriteFailure ==
  [][\A s \in Sessions :
       /\ (pc[s] = "addDoc" /\ pc'[s] # "addDoc" /\ db' = db) =>
            /\ pc'[s] = "settled"
            /\ result'[s] = Rejected(ErrStore)
            /\ writes'[s] = 1
            /\ reservations' = reservations
       /\ (op[s] = "create" /\ pc[s] \notin {"idle", "settled"}) =>
            (writes'[s] = 1 /\ (pc'[s] = "addDoc" => pc[s] = "addDoc"))
    ]_vars

\* C8 witness: a create settled with the store's error and the store and
\* the cache hold no record for its date.
C8_Witness ==
  \E s \in Sessions :
    /\ Settled(s, "create") /\ result[s] = Rejected(ErrStore)
    /\ writes[s] = 1
    /\ ~ \E r \in db \cup reservations[s] : r.date = arg[s].date

\* C9: the weekly count returned for (portal, floor, door, date) is the
\* number of cached reservations dated in the Monday-to-Sunday week of
\* `date` whose portal and floor are equal to the arguments and whose door
\* is equal to the argument ignoring case.
C9_WeeklyCount ==
  \A s \in Sessions :
    op[s] = "count" =>
      result[s] =
        Returned(Cardinality(
          {r \in reservations[s] :
             /\ CalendarWeek(r.date) = CalendarWeek(arg[s].date)
             /\ SameUnit(r, arg[s])}))

\* C9 witness: with Monday, the following Sunday (door "a"), the Monday
\* after, the Sunday before and three other units of that week in the
\* cache, the count for P1/2/A on the Monday is 2.
C9_Witness ==
  \E s \in Sessions :
    /\ op[s] = "count" /\ reservations[s] = CountDocs
    /\ arg[s] = [portal |-> "P1", floor |-> "2", door |-> "A", date |-> 0]
    /\ result[s] = Returned(2)

\* The reservation a cancel in flight found in its closure's cache.
Cancelled(s) == CHOOSE r \in view[s] : r.id = arg[s].id
WeeklyCountOf(list, r) ==
  getWeeklyApartmentReservationsCount(list, r.portal, r.floor, r.door, r.date)

\* C10 (as claimed): the delete of an authorized cancel removes exactly that
\* record from the store, and when the refresh of the cancel has completed
\* the session's weekly count for the record's unit and week is one less
\* than it was when the cancel was called.
C10_CountDropsByOne ==
  [][\A s \in Sessions :
       /\ (pc[s] = "deleteDoc" /\ pc'[s] = "getDocs") =>
            db' = db \ {Cancelled(s)}
       /\ (op[s] = "cancel" /\ pc[s] = "setReservations"
           /\ pc'[s] = "settled") =>
            WeeklyCountOf(reservations'[s], Cancelled(s))
              = WeeklyCountOf(view[s], Cancelled(s)) - 1
    ]_vars

\* C10 (amended): the delete of an authorized cancel removes exactly that
\* record from the store (nothing when it is no longer there); when the
\* refresh of the cancel has completed the cache is the store as the
\* refresh read it, it no longer holds the record, and the weekly count for
\* the record's unit and week is one less than when the cancel was called
\* provided the store read differs from the cache of that time by that
\* record alone.
C10_CancelEffect ==
  [][\A s \in Sessions :
       /\ (pc[s] = "deleteDoc" /\ pc'[s] = "getDocs") =>
            db' = db \ {Cancelled(s)}
       /\ (op[s] = "cancel" /\ pc[s] = "setReservations"
           /\ pc'[s] = "settled") =>
            /\ reservations'[s] = snapshot[s]
            /\ ~ \E r \in reservations'[s] : r.id = arg[s].id
            /\ snapshot[s] = view[s] \ {Cancelled(s)} =>
                 WeeklyCountOf(reservations'[s], Cancelled(s))
                   = WeeklyCountOf(view[s], Cancelled(s)) - 1
    ]_vars

\* C10 witness: a cancel settled after its delete and its refresh; the
\* record is gone from the store and from the cache, and another record of
\* the same unit and week is still in both.
C10_Witness ==
  \E s \in Sessions :
    /\ Settled(s, "cancel") /\ toasts[s] = {MsgCancelled}
    /\ ~ \E r \in db \cup reservations[s] : r.id = arg[s].id
    /\ arg[s].id = 1
    /\ Booked2 \in db /\ Booked2 \in reservations[s]

\* C11 (as claimed): with one session whose calls do not overlap and no
\* failing store call, the store never holds two reservations of one date
\* nor more than 2 of one unit in one week, and between calls (the first
\* load ended) the session's cache is the store.
C11_SingleWriterSafety ==
  /\ C1_UniqueDates
  /\ C2_WeeklyQuota
  /\ (pc[Writer] \in {"idle", "settled"} /\ mount[Writer].pc = "done") =>
       reservations[Writer] = db

\* The weekly count of the data model over a set of reservations.
UnitWeekCount(list, q) ==
  Cardinality({r \in list : SameUnit(r, q)
                            /\ CalendarWeek(r.date) = CalendarWeek(q.date)})

\* C12: an authenticated create is decided on the session's cache V alone:
\* DateAlreadyReserved when V holds a reservation of any unit on the date
\* (also when the unit's week is full); otherwise WeeklyQuotaExceeded when V
\* holds 2 or more of the unit in the date's week; otherwise the record,
\* with the caller's userId, goes to the store, which adds exactly it.
C12_AdmissionOrder ==
  [][\A s \in Sessions :
       /\ \A data \in Inputs :
            (createReservation(s, data) /\ user[s] # NoUser) =>
               LET V == reservations[s]
               IN IF \E r \in V : r.date = data.date
                    THEN /\ pc'[s] = "settled"
                         /\ result'[s] = Rejected(ErrDateTaken)
                  ELSE IF UnitWeekCount(V, data) >= 2
                    THEN /\ pc'[s] = "settled"
                         /\ result'[s] = Rejected(ErrQuota)
                  ELSE /\ pc'[s] = "addDoc"
                       /\ view'[s] = V
                       /\ arg'[s] = [portal |-> data.portal,
                                     floor |-> data.floor,
                                     door |-> data.door, date |-> data.date,
                                     status |-> "confirmed",
                                     userId |-> user[s]]
       /\ (pc[s] = "addDoc" /\ pc'[s] = "getDocs") =>
            /\ Cardinality(db' \ db) = 1 /\ db \subseteq db'
            /\ \A r \in db' \ db :
                 [portal |-> r.portal, floor |-> r.floor, door |-> r.door,
                  date |-> r.date, status |-> r.status,
                  userId |-> r.userId] = arg[s]
    ]_vars

\* C12 witness: a create was rejected with DateAlreadyReserved while the
\* cache also showed the unit's week as full.
C12_Witness ==
  \E s \in Sessions :
    /\ Settled(s, "create") /\ result[s] = Rejected(ErrDateTaken)
    /\ UnitWeekCount(reservations[s], arg[s]) >= 2
    /\ \E r \in reservations[s] : r.date = arg[s].date

\* C13: a session's cache changes only in the setReservations of its own
\* load: the one started on mount, or the one that follows its own create
\* or cancel after the store write succeeded; it then becomes what that
\* load read.  A step that changes the store changes no cache.
C13_CacheOwnRefreshOnly ==
  [][/\ \A s \in Sessions :
          reservations'[s] # reservations[s] =>
            \/ /\ mount[s].pc = "setReservations" /\ mount'[s].pc = "done"
               /\ reservations'[s] = mount[s].docs
            \/ /\ pc[s] = "setReservations" /\ pc'[s] = "settled"
               /\ reservations'[s] = snapshot[s]
               /\ writes[s] = 1
               /\ op[s] = "cancel" => MsgCancelled \in toasts[s]
     /\ db' # db => reservations' = reservations
    ]_vars

\* C13 witness: a create of the other session is in the store and the
\* first session, between calls, still has the cache it had before.
C13_Witness ==
  /\ pc["s1"] = "idle" /\ Settled("s2", "create") /\ result["s2"] = Resolved
  /\ reservations["s1"] = {Booked1, Booked2}
  /\ \E r \in db : r \notin reservations["s1"] /\ r \in reservations["s2"]

\* C14 (as claimed): the setReservations of a call's refresh makes the cache
\* exactly what the refresh read; when a createReservation that went to the
\* store resolves, the session's cache holds the created record; when a
\* cancelReservation that deleted resolves, the cache holds no record with
\* the cancelled id.
C14_RefreshReplacesCache ==
  [][\A s \in Sessions :
       /\ (pc[s] = "setReservations" /\ pc'[s] = "settled") =>
            reservations'[s] = snapshot[s]
       /\ (pc[s] \in {"getDocs", "setReservations"} /\ pc'[s] = "settled"
           /\ result'[s] = Resolved) =>
            /\ op[s] = "create" =>
                 \E r \in reservations'[s] :
                    /\ r.date = arg[s].date /\ r.userId = arg[s].userId
                    /\ r.portal = arg[s].portal /\ r.floor = arg[s].floor
                    /\ r.door = arg[s].door
            /\ op[s] = "cancel" =>
                 \A r \in reservations'[s] : r.id # arg[s].id
    ]_vars

\* C15: a create rejected by the date check or by the weekly check settles
\* in the step of the call: no write is sent, no load is started; the
\* store, the next id and every cache are as before.  A settled call takes
\* no further step.
C15_RejectedCreateNoEffect ==
  [][\A s \in Sessions :
       /\ \A data \in Inputs :
            (createReservation(s, data)
             /\ result'[s] \in {Rejected(ErrDateTaken), Rejected(ErrQuota)}) =>
               /\ pc'[s] = "settled"
               /\ writes'[s] = 0 /\ snapshot'[s] = {}
               /\ db' = db /\ nextId' = nextId
               /\ reservations' = reservations
       /\ (pc[s] = "settled" /\ calls' = calls) =>
            pc'[s] \in {"settled", "idle"}
    ]_vars

\* C15 witness: a create was rejected for the weekly quota and the cache
\* of the session is still the store.
C15_Witness ==
  \E s \in Sessions :
    /\ Settled(s, "create") /\ result[s] = Rejected(ErrQuota)
    /\ reservations[s] = db /\ db # {}

\* C16: a record enters the store only in the addDoc of a create that passed
\* the checks, with the userId the session had when the call was made; a
\* stored record keeps its fields as long as it is stored; a record leaves
\* the store only in the deleteDoc of a cancel whose caller, when the call
\* was made, was the user of the record's userId.
C16_RecordProvenance ==
  [][/\ \A s \in Sessions :
          /\ \A data \in Inputs :
               (createReservation(s, data) /\ pc'[s] = "addDoc") =>
                  user[s] # NoUser /\ arg'[s].userId = user[s]
          /\ \A id \in Ids :
               (cancelReservation(s, id) /\ pc'[s] = "deleteDoc") =>
                  /\ user[s] # NoUser
                  /\ \E r \in reservations[s] : r.id = id
                  /\ \A r \in reservations[s] :
                       r.id = id => r.userId = user[s]
     /\ ~(db' \subseteq db) =>
          \E s \in Sessions :
             /\ pc[s] = "addDoc" /\ op[s] = "create" /\ pc'[s] = "getDocs"
             /\ \A r \in db : r.id # nextId
             /\ db' = db \cup {[id |-> nextId, portal |-> arg[s].portal,
                                floor |-> arg[s].floor, door |-> arg[s].door,
                                date |-> arg[s].date,
                                status |-> arg[s].status,
                                userId |-> arg[s].userId]}
     /\ \A r \in db : \A q \in db' : r.id = q.id => r = q
     /\ ~(db \subseteq db') =>
          \E s \in Sessions :
             /\ pc[s] = "deleteDoc" /\ op[s] = "cancel"
             /\ \E r \in view[s] : r.id = arg[s].id /\ db \ db' = {r}
    ]_vars

\* C16 witness: the store holds a record created by u2 and has lost the
\* reservation of 2024-01-01 to a cancel of its owner.
C16_Witness ==
  /\ \E r \in db : r.userId = "u2" /\ r.id > 2
  /\ Booked1 \notin db /\ Booked2 \in db
  /\ \E s \in Sessions : Settled(s, "cancel") /\ arg[s].id = Booked1.id

\* A cancel of the session has settled after its delete and its refresh
\* both succeeded, and the session now calls createReservation(data) for
\* the date of the cancelled reservation with a user signed in.
RebookAfterCancel(s, data) ==
  /\ Settled(s, "cancel") /\ toasts[s] = {MsgCancelled}
  /\ data.date = arg[s].reservation.date
  /\ user[s] # NoUser
  /\ createReservation(s, data)

\* C17 (as claimed): after a successful cancel and its refresh, a create
\* for the freed date by a unit with fewer than 2 reservations in that week
\* (in the store and in the cache alike) is accepted.
C17_FreedDateBookable ==
  [][\A s \in Sessions : \A data \in Inputs :
       (RebookAfterCancel(s, data)
        /\ UnitWeekCount(db, data) < 2
        /\ UnitWeekCount(reservations[s], data) < 2) =>
          pc'[s] = "addDoc"
    ]_vars

\* C17 (amended): when the refresh of a successful cancel ends, the cache no
\* longer holds the cancelled record; a create for the freed date is then
\* accepted whenever the cache shows no reservation on that date and fewer
\* than 2 of the unit in that week.
C17_FreedDateBookableInCache ==
  [][\A s \in Sessions :
       /\ (op[s] = "cancel" /\ pc[s] = "setReservations"
           /\ pc'[s] = "settled") =>
            \A r \in reservations'[s] : r.id # arg[s].id
       /\ \A data \in Inputs :
            (RebookAfterCancel(s, data)
             /\ UnitWeekCount(reservations[s], data) < 2
             /\ \A r \in reservations[s] : r.date # data.date) =>
               pc'[s] = "addDoc" /\ result'[s] = Pending
    ]_vars

\* C17 witness: after its cancel and refresh the first session has sent a
\* new reservation for the freed date to the store.
C17_Witness ==
  /\ pc["s1"] = "addDoc" /\ arg["s1"].date = Freed.date
  /\ Freed \notin db /\ Freed \notin reservations["s1"]

\* C18: a cancel by a signed-in user looks the reservation up in the cache
\* only.  A reservation of the caller that the store holds and the cache
\* lacks gives NotFound and no delete; a cached reservation of another user
\* gives Forbidden; a cached reservation of the caller that the store has
\* already lost passes the checks, and its delete is sent, succeeds and
\* leaves the store as it was.
C18_CancelOnStaleCache ==
  [][\A s \in Sessions :
       /\ \A id \in Ids :
            (cancelReservation(s, id) /\ user[s] # NoUser) =>
               /\ ( /\ \E r \in db : r.id = id /\ r.userId = user[s]
                    /\ \A r \in reservations[s] : r.id # id ) =>
                      /\ pc'[s] = "settled" /\ toasts'[s] = {MsgNotFound}
                      /\ writes'[s] = 0 /\ db' = db
               /\ (\E r \in reservations[s] :
                      r.id = id /\ r.userId # user[s]) =>
                      /\ pc'[s] = "settled" /\ toasts'[s] = {MsgForbidden}
                      /\ writes'[s] = 0 /\ db' = db
               /\ ( /\ \E r \in reservations[s] :
                         r.id = id /\ r.userId = user[s]
                    /\ \A r \in db : r.id # id ) =>
                      pc'[s] = "deleteDoc" /\ writes'[s] = 1
       /\ (pc[s] = "deleteDoc" /\ pc'[s] = "getDocs"
           /\ \A r \in db : r.id # arg[s].id) =>
            db' = db /\ MsgCancelled \in toasts'[s]
    ]_vars

\* C18 witness: a cancel has passed its checks on a cached reservation that
\* the store no longer holds, and its delete is on its way.
C18_Witness ==
  \E s \in Sessions :
    /\ pc[s] = "deleteDoc" /\ op[s] = "cancel"
    /\ arg[s].reservation \in reservations[s]
    /\ \A r \in db : r.id # arg[s].id

====
